---------------------------- MODULE Spec2Model ----------------------------
(***************************************************************************)
(* Model of the two ADT74x0 temperature readers:                           *)
(*   adt74x0.c   - kernel i2c-dev transport (optionally -DGOOD_I2C_BUS)    *)
(*   adt74x0b.c  - libbcm2835 transport     (optionally -DDEBUG)           *)
(* One action per statement group of main(); init_adt74x0 and read_adt74x0 *)
(* are operators that return the status, the bus operations they issue and *)
(* the lines they print, as functions of the transport's outcomes.         *)
(***************************************************************************)
EXTENDS Integers, Sequences, FiniteSets, TLC

VARIABLES
  prog,        \* "adt74x0" or "adt74x0b": which program runs
  good,        \* adt74x0.c compiled with -DGOOD_I2C_BUS
  debug,       \* adt74x0b.c compiled with -DDEBUG
  pc,          \* position in main()
  i,           \* loop variable of the loop main() is in
  file,        \* adt74x0.c: the descriptor open() returned (0 before)
  devs,        \* int8_t devs[I2C_ADDRS]
  t,           \* double t of main(): [num, den], the value num / den
  ops,         \* transport calls issued so far in this run, in order
  out,         \* lines printed so far in this run, in order
  exitStatus,  \* process exit status, -1 while running
  env,         \* transport outcomes seen so far, per address and step
  wire,        \* what the bus may answer: "sample" (SampleWords, any error
               \* code), "one" (one pair, one code) or "all" (AllWords)
  run,         \* 1: first run, 2: the re-run of PairSpec
  victim,      \* PairSpec: <<address, step>> whose write outcome was flipped
  prevDevs,    \* PairSpec: devs[0x48..0x4b] at the end of run 1
  prevOps,     \* PairSpec: ops at the end of run 1
  prevOut      \* PairSpec: out at the end of run 1

vars == <<prog, good, debug, pc, i, file, devs, t, ops, out, exitStatus, env, wire,
          run, victim, prevDevs, prevOps, prevOut>>

---------------------------------------------------------------------------
(* Program constants *)

T_MSB     == 0
CONFIG    == 3
IDREG     == 11
RESET     == 47
I2C_ADDRS == 128
FirstAddr == 72     \* 0x48
LastAddr  == 75     \* 0x4b

Window == FirstAddr..LastAddr
Addrs  == 0..(I2C_ADDRS - 1)
\* the "address" of calls made to the bus as a whole
NoAddr == 0 - 1

(* Bounds of the transport's outcomes *)

MaxErr == 1

\* negative returns of ioctl() and the i2c_smbus_* calls
KernelErrs == {-k : k \in 1..MaxErr}
\* bcm2835I2CReasonCodes other than OK: NACK = 1, CLKT = 2, DATA = 4
BcmReasons == {2 ^ (k - 1) : k \in 1..MaxErr}

\* ID register bytes a device may answer with
IdBytes == {207, 208}               \* 0xCF matches, 0xD0 does not
\* temperature register pairs <<first wire byte, second wire byte>>
SampleWords == {<<0, 128>>, <<255, 128>>}
Byte == 0..255
AllWords == {<<h, l>> : h \in Byte, l \in Byte}

---------------------------------------------------------------------------
(* C integer arithmetic *)

RECURSIVE BitAnd(_, _)
BitAnd(x, y) ==
  IF x = 0 \/ y = 0 THEN 0
  ELSE (x % 2) * (y % 2) + 2 * BitAnd(x \div 2, y \div 2)

RECURSIVE BitOr(_, _)
BitOr(x, y) ==
  IF x = 0 THEN y
  ELSE IF y = 0 THEN x
  ELSE (IF x % 2 = 1 \/ y % 2 = 1 THEN 1 ELSE 0) + 2 * BitOr(x \div 2, y \div 2)

ShiftL(x, n) == x * (2 ^ n)
ShiftR(x, n) == x \div (2 ^ n)

\* conversion of an int to int16_t / int8_t (gcc: reduced modulo 2^N)
ToInt16(x) == LET m == x % 65536 IN IF m >= 32768 THEN m - 65536 ELSE m
ToInt8(x)  == LET m == x % 256 IN IF m >= 128 THEN m - 256 ELSE m

\* printf("%.5f", t128 / 128.0) as a count of 1e-5 degrees: the double is
\* exact, and the decimal conversion rounds to nearest, ties to even
Fmt5(t128) ==
  LET n == (IF t128 < 0 THEN -t128 ELSE t128) * 3125
      q == n \div 4
      r == n % 4
      m == IF r > 2 \/ (r = 2 /\ q % 2 = 1) THEN q + 1 ELSE q
  IN IF t128 < 0 THEN -m ELSE m

---------------------------------------------------------------------------
(* Transport calls and their outcomes *)

\* a logged transport call: fn is the function of the program that made it
Op(fn, op, addr, reg, val) ==
  [fn |-> fn, op |-> op, addr |-> addr, reg |-> reg, val |-> val]

\* a printed line
Line(kind, addr, val) == [kind |-> kind, addr |-> addr, val |-> val]

\* an outcome: rc is the call's status (0 success), data the bytes received
Outcome(rc, data) == [rc |-> rc, data |-> data]
Success == Outcome(0, <<>>)

\* the temperature register pairs a sensor may deliver in this run
Words ==
  IF wire = "all" THEN AllWords
  ELSE IF wire = "one" THEN {<<255, 128>>}
  ELSE SampleWords

\* the error codes a transport call may fail with in this run
ErrCodes ==
  IF wire = "one" THEN (IF prog = "adt74x0" THEN {-1} ELSE {1})
  ELSE IF prog = "adt74x0" THEN KernelErrs
  ELSE BcmReasons

\* adt74x0.c: open() returns a descriptor or -1.  adt74x0b.c: bcm2835_init()
\* returns 1, or 0 with the peripherals mapped (data <<1>>) or not (<<0>>)
OpenOutcomes ==
  IF prog = "adt74x0" THEN {Outcome(3, <<>>), Outcome(-1, <<>>)}
  ELSE {Outcome(1, <<>>), Outcome(0, <<1>>), Outcome(0, <<0>>)}

SelOutcomes   == {Success, Outcome(-1, <<>>)}
WriteOutcomes == {Success} \cup {Outcome(c, <<>>) : c \in ErrCodes}
IdOutcomes    == {Outcome(0, <<b>>) : b \in IdBytes}
                   \cup {Outcome(c, <<>>) : c \in ErrCodes}
WordOutcomes  == {Outcome(0, w) : w \in Words}
                   \cup {Outcome(c, <<>>) : c \in ErrCodes}

\* the outcome of step s at address a: the one already seen in an earlier
\* run if there is one, otherwise any the transport can produce
Draw(a, s, fresh) ==
  IF a \in DOMAIN env /\ s \in DOMAIN env[a] THEN {env[a][s]} ELSE fresh

\* remember the outcomes of the steps a call consumed
Remember(known, e, used) ==
  [s \in (DOMAIN known) \cup used |-> IF s \in used THEN e[s] ELSE known[s]]

Result(stat, o, l, used) == [stat |-> stat, ops |-> o, out |-> l, used |-> used]

---------------------------------------------------------------------------
(* adt74x0.c: init_adt74x0 and read_adt74x0 *)

\* the ID check of both programs: top five bits must be 0b11001
IdMatches(b) == BitAnd(b, 248) = 200

\* value returned by i2c_smbus_read_byte_data: the byte, or a negative error
SmbusByte(o) == IF o.rc < 0 THEN o.rc ELSE BitAnd(255, o.data[1])

\* value returned by i2c_smbus_read_word_data: an SMBus word carries the
\* first byte on the wire in bits 0..7 and the second in bits 8..15
SmbusWord(o) == IF o.rc < 0 THEN o.rc ELSE o.data[1] + 256 * o.data[2]

\* DecodeWord with the bytes of the SMBus word left as they came
DecodeWordUnswapped(t_raw) ==
  LET hi == ToInt16(ShiftR(BitAnd(t_raw, 65280), 8))
      lo == ToInt16(BitAnd(t_raw, 255))
  IN ToInt16(BitOr(ShiftL(hi, 8), lo))

\* adt74x0.c lines 158-161: swap the bytes of the SMBus word
DecodeWord(t_raw) ==
  LET lo == ToInt16(ShiftR(BitAnd(t_raw, 65280), 8))
      hi == ToInt16(BitAnd(t_raw, 255))
  IN ToInt16(BitOr(ShiftL(hi, 8), lo))

\* adt74x0b.c lines 151-154: buff[0] is the first byte on the wire
DecodeBytes(buff) ==
  LET hi == ToInt16(buff[1])
      lo == ToInt16(buff[2])
  IN ToInt16(BitOr(ShiftL(hi, 8), lo))

\* adt74x0.c line 140 onwards, after the optional ID check
KernelConfig(addr, e, o, l, used) ==
  LET o2 == Append(o, Op("init", "write", addr, CONFIG, 128))
  IN IF e.config.rc < 0
       THEN Result(-5, o2, l, used \cup {"config"})
       ELSE Result(0, o2, l, used \cup {"config"})

\* adt74x0.c init_adt74x0(file, addr); e gives the outcome of each call
init_adt74x0(addr, e) ==
  LET o1 == <<Op("init", "select", addr, -1, -1)>>
      o2 == Append(o1, Op("init", "write", addr, RESET, -1))
      o3 == Append(o2, Op("init", "sleep", addr, -1, 250))
      o4 == Append(o3, Op("init", "read", addr, IDREG, 1))
      stat == SmbusByte(e.id)
      l == <<Line("id", addr, stat)>>
  IN IF e.sel.rc < 0 THEN Result(-1, o1, <<>>, {"sel"})
     ELSE IF e.reset.rc < 0 THEN Result(-2, o2, <<>>, {"sel", "reset"})
     ELSE IF ~good THEN KernelConfig(addr, e, o3, <<>>, {"sel", "reset"})
     ELSE IF stat < 0 THEN Result(-3, o4, <<>>, {"sel", "reset", "id"})
     ELSE IF ~IdMatches(stat) THEN Result(-4, o4, l, {"sel", "reset", "id"})
     ELSE KernelConfig(addr, e, o4, l, {"sel", "reset", "id"})

\* adt74x0.c read_adt74x0(file, addr, &temp); .t128 is temp * 128
read_adt74x0(addr, e) ==
  LET o1 == <<Op("read", "select", addr, -1, -1)>>
      o2 == Append(o1, Op("read", "read", addr, T_MSB, 2))
      t_raw == SmbusWord(e.read)
  IN IF e.rsel.rc < 0
       THEN [stat |-> -1, ops |-> o1, t128 |-> 0, used |-> {"rsel"}]
     ELSE IF t_raw < 0
       THEN [stat |-> -6, ops |-> o2, t128 |-> 0, used |-> {"rsel", "read"}]
     ELSE [stat |-> 0, ops |-> o2, t128 |-> DecodeWord(t_raw),
           used |-> {"rsel", "read"}]

---------------------------------------------------------------------------
(* adt74x0b.c: init_adt74x0 and read_adt74x0 *)

\* adt74x0b.c init_adt74x0(addr); bcm2835_i2c_setSlaveAddress returns nothing
init_adt74x0b(addr, e) ==
  LET o1 == <<Op("init", "select", addr, -1, -1),
              Op("init", "write", addr, RESET, -1)>>
      o2 == o1 \o <<Op("init", "sleep", addr, -1, 1000),
                    Op("init", "write", addr, CONFIG, 128)>>
      o3 == Append(o2, Op("init", "read", addr, IDREG, 1))
  IN IF e.reset.rc # 0 THEN Result(-(16 + e.reset.rc), o1, <<>>, {"reset"})
     ELSE IF e.config.rc # 0
       THEN Result(-(32 + e.config.rc), o2, <<>>, {"reset", "config"})
     ELSE IF e.id.rc # 0
       THEN Result(-(48 + e.id.rc), o3, <<>>, {"reset", "config", "id"})
     ELSE IF ~IdMatches(e.id.data[1])
       THEN Result(-63, o3, <<>>, {"reset", "config", "id"})
     ELSE Result(0, o3, <<>>, {"reset", "config", "id"})

\* adt74x0b.c read_adt74x0(addr, &temp)
read_adt74x0b(addr, e) ==
  LET o1 == <<Op("read", "select", addr, -1, -1),
              Op("read", "read", addr, T_MSB, 2)>>
  IN IF e.read.rc # 0
       THEN [stat |-> -(64 + e.read.rc), ops |-> o1, t128 |-> 0,
             used |-> {"read"}]
     ELSE [stat |-> 0, ops |-> o1, t128 |-> DecodeBytes(e.read.data),
           used |-> {"read"}]

---------------------------------------------------------------------------
(* main() *)

Kernel == prog = "adt74x0"

\* devs[] before the marking loop has run (never read by the program)
Unmarked == [j \in Addrs |-> 0]

NoEnv == [a \in Window \cup {NoAddr} |-> <<>>]

\* the start of main() in either program and any build of it, on a bus whose
\* outcomes e are known beforehand and whose sensors deliver the pairs w
Boot(w, e) ==
  /\ prog \in {"adt74x0", "adt74x0b"}
  /\ good \in (IF prog = "adt74x0" THEN BOOLEAN ELSE {FALSE})
  /\ debug \in (IF prog = "adt74x0b" THEN BOOLEAN ELSE {FALSE})
  /\ pc = "start"
  /\ i = 0
  /\ file = 0
  /\ devs = Unmarked
  /\ t = [num |-> 0, den |-> 1]
  /\ ops = <<>>
  /\ out = <<>>
  /\ exitStatus = -1
  /\ env = e
  /\ wire = w
  /\ run = 1
  /\ victim = <<NoAddr, "none">>
  /\ prevDevs = [a \in Window |-> 0]
  /\ prevOps = <<>>
  /\ prevOut = <<>>

Init == Boot("sample", NoEnv)

Progress == <<t, wire, run, victim, prevDevs, prevOps, prevOut>>

\* adt74x0.c lines 70-76: announce, open the bus, exit(1) if that fails
OpenBus ==
  /\ pc = "start"
  /\ Kernel
  /\ \E o \in Draw(NoAddr, "open", OpenOutcomes) :
       /\ file' = o.rc
       /\ ops' = <<Op("main", "open", NoAddr, -1, -1)>>
       /\ env' = [env EXCEPT ![NoAddr] = Remember(@, [open |-> o], {"open"})]
       /\ IF o.rc < 0
            THEN /\ out' = <<Line("scanning", NoAddr, -1), Line("unable", NoAddr, -1)>>
                 /\ exitStatus' = 1
                 /\ pc' = "done"
            ELSE /\ out' = <<Line("scanning", NoAddr, -1)>>
                 /\ exitStatus' = exitStatus
                 /\ pc' = "mark"
  /\ UNCHANGED <<prog, good, debug, i, devs, Progress>>

\* adt74x0b.c line 62: bcm2835_init(), its result ignored
BcmInit ==
  /\ pc = "start"
  /\ ~Kernel
  /\ \E o \in Draw(NoAddr, "open", OpenOutcomes) :
       env' = [env EXCEPT ![NoAddr] = Remember(@, [open |-> o], {"open"})]
  /\ ops' = <<Op("main", "open", NoAddr, -1, -1)>>
  /\ pc' = "begin"
  /\ UNCHANGED <<prog, good, debug, i, file, devs, out, exitStatus, Progress>>

\* adt74x0b.c lines 63-67: bcm2835_i2c_begin() and the baud rate.  With no
\* peripheral mapped the first register access faults and the process dies
\* by SIGSEGV (status 139)
BcmBegin ==
  /\ pc = "begin"
  /\ IF env[NoAddr]["open"] = Outcome(0, <<0>>)
       THEN /\ ops' = Append(ops, Op("main", "begin", NoAddr, -1, -1))
            /\ exitStatus' = 139
            /\ pc' = "done"
       ELSE /\ ops' = ops \o <<Op("main", "begin", NoAddr, -1, -1),
                              Op("main", "baudrate", NoAddr, -1, 10000)>>
            /\ exitStatus' = exitStatus
            /\ pc' = "mark"
  /\ UNCHANGED <<prog, good, debug, i, file, devs, out, env, Progress>>

\* InitialMark with the lower end of the window off by one
InitialMarkOffByOne(j) ==
  IF Kernel THEN (IF j >= FirstAddr - 1 /\ j <= LastAddr THEN 1 ELSE 0) ELSE -1

\* adt74x0.c line 82 / adt74x0b.c line 73: the initial mark of address j
InitialMark(j) ==
  IF Kernel THEN (IF j >= FirstAddr /\ j <= LastAddr THEN 1 ELSE 0) ELSE -1

\* adt74x0.c lines 80-82 / adt74x0b.c lines 71-73
MarkDevs ==
  /\ pc = "mark"
  /\ devs' = [j \in Addrs |-> ToInt8(InitialMark(j))]
  /\ i' = IF Kernel THEN 0 ELSE FirstAddr
  /\ pc' = "init"
  /\ UNCHANGED <<prog, good, debug, file, ops, out, exitStatus, env, Progress>>

\* the last index of the initialisation loop: adt74x0.c line 85,
\* adt74x0b.c line 76
InitLast == IF Kernel THEN I2C_ADDRS - 1 ELSE LastAddr

\* InitSkip of a loop that gives up after the first failed address
InitSkipAfterFailure(j) ==
  \/ Kernel /\ devs[j] <= 0
  \/ \E k \in Window : k < j /\ devs[k] < 0

\* whether the initialisation loop passes over index j without calling
\* init_adt74x0: adt74x0.c lines 87-88; adt74x0b.c passes over none
InitSkip(j) == Kernel /\ devs[j] <= 0

\* ReadSkip that passes over the unmarked addresses only
ReadSkipZeroOnly(j) == IF Kernel THEN devs[j] = 0 ELSE devs[j] = -1

\* whether the result loop passes over index j without calling read_adt74x0:
\* adt74x0.c lines 101-102, adt74x0b.c lines 91-92
ReadSkip(j) == IF Kernel THEN devs[j] <= 0 ELSE devs[j] # 0

\* the first index from j on at which the initialisation loop calls
\* init_adt74x0, I2C_ADDRS if the loop ends first
InitScan(j) ==
  LET todo == {k \in j..InitLast : ~InitSkip(k)}
  IN IF todo = {} THEN I2C_ADDRS
     ELSE CHOOSE k \in todo : \A m \in todo : k <= m

\* the first index from j on at which the result loop calls read_adt74x0,
\* I2C_ADDRS if the loop ends first
ReadScan(j) ==
  LET todo == {k \in j..(I2C_ADDRS - 1) : ~ReadSkip(k)}
  IN IF todo = {} THEN I2C_ADDRS
     ELSE CHOOSE k \in todo : \A m \in todo : k <= m

\* AfterInit that keeps a failure as a flag, not as its code
AfterInitFlag(old, stat) ==
  IF stat < 0 THEN -1 ELSE IF Kernel THEN old ELSE 0

\* adt74x0.c lines 90-92 / adt74x0b.c line 79: devs[a] after init returned
AfterInit(old, stat) ==
  IF Kernel THEN (IF stat < 0 THEN ToInt8(stat) ELSE old) ELSE ToInt8(stat)

\* adt74x0b.c lines 80-82
DebugLine(a, stat) == IF debug THEN <<Line("scan", a, -stat)>> ELSE <<>>

\* one iteration of the initialisation loop that reaches init_adt74x0
InitCall ==
  /\ pc = "init"
  /\ LET a == InitScan(i) IN
     /\ a < I2C_ADDRS
     /\ \E sel \in Draw(a, "sel", SelOutcomes),
        rst \in Draw(a, "reset", WriteOutcomes),
        idr \in Draw(a, "id", IdOutcomes),
        cfg \in Draw(a, "config", WriteOutcomes) :
       LET e == [sel |-> sel, reset |-> rst, id |-> idr, config |-> cfg]
           r == IF Kernel THEN init_adt74x0(a, e) ELSE init_adt74x0b(a, e)
       IN /\ devs' = [devs EXCEPT ![a] = AfterInit(@, r.stat)]
          /\ ops' = ops \o r.ops
          /\ out' = out \o r.out \o DebugLine(a, r.stat)
          /\ env' = [env EXCEPT ![a] = Remember(@, e, r.used)]
          /\ i' = a + 1
  /\ UNCHANGED <<prog, good, debug, pc, file, exitStatus, Progress>>

\* ConvDelay without the wait
ConvDelayMissing ==
  /\ pc = "init"
  /\ InitScan(i) = I2C_ADDRS
  /\ i' = 0
  /\ pc' = "read"
  /\ UNCHANGED <<prog, good, debug, file, devs, ops, out, exitStatus, env,
                 Progress>>

\* adt74x0.c line 96 / adt74x0b.c line 86: the loop is over, wait 1 s
ConvDelay ==
  /\ pc = "init"
  /\ InitScan(i) = I2C_ADDRS
  /\ ops' = Append(ops, Op("main", "sleep", NoAddr, -1, 1000000))
  /\ i' = 0
  /\ pc' = "read"
  /\ UNCHANGED <<prog, good, debug, file, devs, out, exitStatus, env, Progress>>

\* ResultLine that does not look at the status read_adt74x0 returned
ResultLineUnchecked(a, r) == Line("temp", a, Fmt5(r.t128))

\* adt74x0.c lines 107-108 / adt74x0b.c lines 97-98; on success t holds
\* r.t128 / 128.0
ResultLine(a, r) ==
  IF r.stat < 0 THEN Line("error", a, r.stat)
  ELSE Line("temp", a, Fmt5(r.t128))

\* one iteration of the result loop that reaches read_adt74x0
ReadCall ==
  /\ pc = "read"
  /\ LET a == ReadScan(i) IN
     /\ a < I2C_ADDRS
     /\ \E sel \in Draw(a, "rsel", SelOutcomes),
        rd \in Draw(a, "read", WordOutcomes) :
       LET e == [rsel |-> sel, read |-> rd]
           r == IF Kernel THEN read_adt74x0(a, e) ELSE read_adt74x0b(a, e)
       IN /\ t' = IF r.stat < 0 THEN t ELSE [num |-> r.t128, den |-> 128]
          /\ ops' = ops \o r.ops
          /\ out' = Append(out, ResultLine(a, r))
          /\ env' = [env EXCEPT ![a] = Remember(@, e, r.used)]
          /\ i' = a + 1
  /\ UNCHANGED <<prog, good, debug, pc, file, devs, exitStatus,
                 wire, run, victim, prevDevs, prevOps, prevOut>>

\* ReleaseOps of a main() that returns without releasing the bus
ReleaseOpsMissing == <<>>

\* adt74x0.c line 111 / adt74x0b.c lines 101-102
ReleaseOps ==
  IF Kernel THEN <<Op("main", "close", NoAddr, -1, -1)>>
  ELSE <<Op("main", "i2c_end", NoAddr, -1, -1),
         Op("main", "close", NoAddr, -1, -1)>>

\* the result loop is over: release the bus and return 0
Release ==
  /\ pc = "read"
  /\ ReadScan(i) = I2C_ADDRS
  /\ ops' = ops \o ReleaseOps
  /\ exitStatus' = 0
  /\ pc' = "done"
  /\ UNCHANGED <<prog, good, debug, i, file, devs, out, env, Progress>>

Next ==
  \/ OpenBus
  \/ BcmInit
  \/ BcmBegin
  \/ MarkDevs
  \/ InitCall
  \/ ConvDelay
  \/ ReadCall
  \/ Release

Spec == Init /\ [][Next]_vars

\* main() is sequential code: a step that can be taken is taken
FairSpec == Spec /\ WF_vars(Next)

---------------------------------------------------------------------------
(* Two runs on the same bus that differ in the outcome of one register     *)
(* write: run 1, in which the write fails, then Rerun makes that write     *)
(* succeed and starts main() again.  Every other outcome seen in run 1 is  *)
(* replayed in run 2 (Draw); the calls only run 2 reaches draw afresh.     *)

Rerun ==
  /\ pc = "done"
  /\ run = 1
  /\ exitStatus = 0
  /\ \E a \in Window, s \in {"reset", "config"} :
       /\ s \in DOMAIN env[a]
       /\ env[a][s].rc # 0
       /\ env' = [env EXCEPT ![a][s] = Success]
       /\ victim' = <<a, s>>
  /\ run' = 2
  /\ prevDevs' = [a \in Window |-> devs[a]]
  /\ prevOps' = ops
  /\ prevOut' = out
  /\ pc' = "start"
  /\ i' = 0
  /\ file' = 0
  /\ devs' = Unmarked
  /\ t' = [num |-> 0, den |-> 1]
  /\ ops' = <<>>
  /\ out' = <<>>
  /\ exitStatus' = -1
  /\ UNCHANGED <<prog, good, debug, wire>>

PairInit ==
  /\ Boot("one", NoEnv)
  /\ ~debug

PairNext == Next \/ Rerun

PairSpec == PairInit /\ [][PairNext]_vars

---------------------------------------------------------------------------
(* read_adt74x0 on every register pair: one sensor at FirstAddr, nothing   *)
(* at the other addresses, and the sensor may deliver any two bytes.       *)

Absent ==
  IF Kernel THEN [sel |-> Outcome(-1, <<>>)] ELSE [reset |-> Outcome(1, <<>>)]

Present ==
  IF Kernel THEN [sel |-> Success, reset |-> Success, config |-> Success,
                  rsel |-> Success]
  ELSE [reset |-> Success, config |-> Success, id |-> Outcome(0, <<200>>)]

DecodeInit ==
  /\ Boot("all", [a \in Window \cup {NoAddr} |->
                   IF a = NoAddr
                     THEN [open |-> IF Kernel THEN Outcome(3, <<>>)
                                    ELSE Outcome(1, <<>>)]
                   ELSE IF a = FirstAddr THEN Present
                   ELSE Absent])
  /\ ~good
  /\ ~debug

DecodeSpec == DecodeInit /\ [][Next]_vars

---------------------------------------------------------------------------
(* Vocabulary of the properties *)

\* a call addressed to a device: address select, register write, register read
IsBusOp(o) == o.op \in {"select", "write", "read"}

\* a line that reports the result for an address
IsResultLine(l) == l.kind \in {"error", "temp"}

OpsAt(log, a) == SelectSeq(log, LAMBDA o : o.addr = a)
InitOpsAt(a) == SelectSeq(ops, LAMBDA o : o.addr = a /\ o.fn = "init")
ReadOpsAt(a) == SelectSeq(ops, LAMBDA o : o.addr = a /\ o.fn = "read")
LinesAt(log, a) == SelectSeq(log, LAMBDA l : l.addr = a)
ResultLinesAt(a) == SelectSeq(out, LAMBDA l : l.addr = a /\ IsResultLine(l))

IsPrefix(s1, s2) ==
  Len(s1) <= Len(s2) /\ \A k \in 1..Len(s1) : s1[k] = s2[k]

\* the outcome of bus acquisition, once known
Opened == "open" \in DOMAIN env[NoAddr]
AcquireFailed ==
  /\ Opened
  /\ IF Kernel THEN env[NoAddr]["open"].rc < 0 ELSE env[NoAddr]["open"].rc = 0
Acquired == Opened /\ ~AcquireFailed

\* a transport call that reported failure
Failed(o) == IF Kernel THEN o.rc < 0 ELSE o.rc # 0
FailedAt(a, s) == s \in DOMAIN env[a] /\ Failed(env[a][s])
OkAt(a, s) == s \in DOMAIN env[a] /\ ~Failed(env[a][s])

\* whether the build checks the ID register
DoesIdentity == ~Kernel \/ good

\* the ID byte read at a has 0b11001 in its top five bits
IdentityPassed(a) == OkAt(a, "id") /\ env[a]["id"].data[1] \div 8 = 25

\* every step of the initialisation of a went well
InitSucceeded(a) ==
  /\ a \in Window
  /\ Kernel => OkAt(a, "sel")
  /\ OkAt(a, "reset")
  /\ OkAt(a, "config")
  /\ DoesIdentity => IdentityPassed(a)

PastAcquisition == pc = "done" /\ exitStatus = 0

ReleaseCount == Len(SelectSeq(ops, LAMBDA o : o.op = "close"))

\* positions of the conversion delay in the log
DelayIdx == {k \in DOMAIN ops : ops[k].op = "sleep" /\ ops[k].fn = "main"}

---------------------------------------------------------------------------
(* C1: no address select, register write or register read is ever issued   *)
(* to an address outside 0x48..0x4b, in either program.                    *)
C1_WindowOnly ==
  \A k \in DOMAIN ops : IsBusOp(ops[k]) => ops[k].addr \in Window

\* adt74x0.c has walked all 128 indices, with failures and a read inside the window
C1_Witness ==
  /\ PastAcquisition
  /\ Kernel
  /\ \E k \in DOMAIN ops : ops[k].op = "read" /\ ops[k].fn = "read"
  /\ \E a \in Window : devs[a] < 0

(* C2: when bus acquisition fails the program terminates with a non-zero   *)
(* status, having issued no call to any address and printed no line about  *)
(* any address.                                                            *)
C2_AcquireFailureFatal ==
  AcquireFailed =>
    /\ pc \in {"begin", "done"}
    /\ pc = "done" => exitStatus > 0
    /\ \A k \in DOMAIN ops : ~IsBusOp(ops[k])
    /\ \A k \in DOMAIN out : out[k].addr = NoAddr

(* C3 as stated: at the end of a run that acquired the bus every candidate *)
(* address has exactly one result line: an error line if its               *)
(* initialisation or its read failed, a temperature line otherwise.        *)
C3_OneLinePerCandidate ==
  (pc = "done" /\ Acquired) =>
    \A a \in Window :
      /\ Len(ResultLinesAt(a)) = 1
      /\ ResultLinesAt(a)[1].kind = "temp"
           <=> (InitSucceeded(a) /\ OkAt(a, "read") /\ (Kernel => OkAt(a, "rsel")))

(* C3 as amended: at the end of a run that acquired the bus every candidate *)
(* address whose initialisation succeeded has exactly one result line, an   *)
(* error line with a negative code if its read pass failed and a            *)
(* temperature line otherwise; an address whose initialisation failed has   *)
(* no result line, and no other address has one.                            *)
C3_OneLinePerInitialized ==
  (pc = "done" /\ Acquired) =>
    /\ \A a \in Window :
         IF InitSucceeded(a)
           THEN /\ Len(ResultLinesAt(a)) = 1
                /\ IF OkAt(a, "read") /\ (Kernel => OkAt(a, "rsel"))
                     THEN ResultLinesAt(a)[1].kind = "temp"
                     ELSE /\ ResultLinesAt(a)[1].kind = "error"
                          /\ ResultLinesAt(a)[1].val < 0
           ELSE Len(ResultLinesAt(a)) = 0
    /\ \A k \in DOMAIN out : IsResultLine(out[k]) => out[k].addr \in Window

\* a finished run with a failed initialisation, a failed read and a temperature
C3_Witness ==
  /\ pc = "done"
  /\ Acquired
  /\ \E a \in Window : ~InitSucceeded(a)
  /\ \E k \in DOMAIN out : out[k].kind = "error"
  /\ \E k \in DOMAIN out : out[k].kind = "temp"

(* C4: a run that acquired the bus reaches its end whatever fails at the   *)
(* addresses, releases the bus exactly once, issues nothing after the      *)
(* release and exits with status 0.                                        *)
C4_Safe ==
  /\ ReleaseCount <= 1
  /\ ReleaseCount = 1 => (pc = "done" /\ ops[Len(ops)].op = "close")
  /\ (Acquired /\ pc = "done") => (ReleaseCount = 1 /\ exitStatus = 0)

C4_ReleasedOnceExitZero ==
  /\ []C4_Safe
  /\ [](Acquired => <>(pc = "done"))

\* a finished run in which an initialisation and a read failed
C4_Witness ==
  /\ pc = "done"
  /\ Acquired
  /\ ReleaseCount = 1
  /\ \E a \in Window : FailedAt(a, "reset")
  /\ \E a \in Window : FailedAt(a, "read")

(* C5: two runs that differ only in that a register write fails at address *)
(* a in one and succeeds in the other give every other candidate address   *)
(* the same calls, the same status and the same lines.                     *)
C5_OtherAddressesUnaffected ==
  (run = 2 /\ pc = "done") =>
    \A b \in Window \ {victim[1]} :
      /\ OpsAt(ops, b) = OpsAt(prevOps, b)
      /\ devs[b] = prevDevs[b]
      /\ LinesAt(out, b) = LinesAt(prevOut, b)

\* the second run is over, the write changed the victim's status, and another
\* address was read in both runs
C5_Witness ==
  /\ run = 2
  /\ pc = "done"
  /\ devs[victim[1]] # prevDevs[victim[1]]
  /\ \E b \in Window \ {victim[1]} :
       /\ \E k \in DOMAIN out : out[k].addr = b /\ out[k].kind = "temp"
       /\ \E k \in DOMAIN prevOps : prevOps[k].addr = b /\ prevOps[k].fn = "read"

(* C6: for every pair of bytes (high first on the wire) a successful        *)
(* read_adt74x0 leaves t = signed16(high << 8 | low) / 128, in both         *)
(* programs.                                                                *)
Signed16OfPair(h, l) ==
  LET v == h * 256 + l IN IF v >= 32768 THEN v - 65536 ELSE v

C6_DecodeIsSigned16 ==
  \A a \in Window :
    (/\ pc \in {"read", "done"}
     /\ i = a + 1
     /\ Len(out) > 0
     /\ out[Len(out)].kind = "temp"
     /\ out[Len(out)].addr = a)
    => t = [num |-> Signed16OfPair(env[a]["read"].data[1], env[a]["read"].data[2]),
            den |-> 128]

\* adt74x0.c has decoded 0xFF 0x80 to -128/128
C6_Witness ==
  /\ Kernel
  /\ pc = "read"
  /\ i = FirstAddr + 1
  /\ OkAt(FirstAddr, "read")
  /\ env[FirstAddr]["read"].data = <<255, 128>>
  /\ out[Len(out)].kind = "temp"
  /\ t = [num |-> -128, den |-> 128]

(* C7 as stated: when a transport call fails at an address with code c,    *)
(* the code recorded for the address (devs[] after init_adt74x0, the error *)
(* line after read_adt74x0) is c itself.                                   *)
RecordedCodes(a, s) ==
  IF s \in {"rsel", "read"}
    THEN {ResultLinesAt(a)[k].val : k \in DOMAIN ResultLinesAt(a)}
    ELSE {devs[a]}

StepCode(s, c) ==
  IF Kernel
    THEN CASE s = "sel" -> -1
           [] s = "reset" -> -2
           [] s = "id" -> -3
           [] s = "config" -> -5
           [] s = "rsel" -> -1
           [] s = "read" -> -6
    ELSE CASE s = "reset" -> -(16 + c)
           [] s = "config" -> -(32 + c)
           [] s = "id" -> -(48 + c)
           [] s = "read" -> -(64 + c)

InitOrder ==
  <<"select", "reset", "settle">>
    \o (IF DoesIdentity THEN <<"identity">> ELSE <<>>)
    \o <<"config">>

StepOf(o) ==
  CASE o.op = "select" -> "select"
    [] o.op = "write" /\ o.reg = RESET -> "reset"
    [] o.op = "sleep" /\ o.val >= 200 -> "settle"
    [] o.op = "read" /\ o.reg = IDREG -> "identity"
    [] o.op = "write" /\ o.reg = CONFIG /\ o.val = 128 -> "config"
    [] OTHER -> "other"

C8_InitOrder ==
  \A a \in Window :
    LET got == [k \in DOMAIN InitOpsAt(a) |-> StepOf(InitOpsAt(a)[k])]
    IN /\ IsPrefix(got, InitOrder)
       /\ (DoesIdentity /\ \E k \in DOMAIN got : got[k] = "config")
            => IdentityPassed(a)

(* C9 as stated: in every run the 1 s conversion delay occurs exactly once, *)
(* after the last initialisation call and before the first temperature     *)
(* read; no initialisation call follows it.                                 *)
C9_Ordered ==
  /\ Cardinality(DelayIdx) <= 1
  /\ \A k \in DOMAIN ops :
       /\ ops[k].fn = "init" => \A d \in DelayIdx : k < d
       /\ ops[k].fn = "read" => \E d \in DelayIdx : d < k

C9_DelayOnceEveryRun ==
  /\ C9_Ordered
  /\ pc = "done" => Cardinality(DelayIdx) = 1

(* C9 as amended: in every run that gets past bus acquisition the delay     *)
(* occurs exactly once, after the last initialisation call and before the   *)
(* first temperature read, and no initialisation call follows it; a run     *)
(* that ends at bus acquisition has no delay and no call to any address.    *)
C9_DelayOncePastAcquisition ==
  /\ C9_Ordered
  /\ PastAcquisition => Cardinality(DelayIdx) = 1
  /\ (pc = "done" /\ exitStatus # 0) =>
       (DelayIdx = {} /\ \A k \in DOMAIN ops : ~IsBusOp(ops[k]))

\* a finished run with initialisation calls before the delay and reads after it
C9_Witness ==
  /\ PastAcquisition
  /\ \E d \in DelayIdx :
       /\ \E k \in 1..(d - 1) : ops[k].fn = "init"
       /\ \E k \in (d + 1)..Len(ops) : ops[k].fn = "read" /\ ops[k].op = "read"

(* C10: what holds of the read pass in every state: it touches only        *)
(* addresses whose initialisation succeeded, in ascending order, each at   *)
(* most once, and a register read directly follows the select of its       *)
(* address.                                                                *)
ReadPassShape ==
  /\ \A k \in DOMAIN ops : ops[k].fn = "read" => InitSucceeded(ops[k].addr)
  /\ \A k, m \in DOMAIN ops :
       (k < m /\ ops[k].fn = "read" /\ ops[m].fn = "read")
         => ops[k].addr <= ops[m].addr
  /\ \A a \in Window :
       /\ Len(SelectSeq(ReadOpsAt(a), LAMBDA o : o.op = "select")) <= 1
       /\ Len(SelectSeq(ReadOpsAt(a), LAMBDA o : o.op = "read")) <= 1
  /\ \A k \in DOMAIN ops :
       (ops[k].fn = "read" /\ ops[k].op = "read")
         => /\ k > 1
            /\ ops[k - 1].fn = "read"
            /\ ops[k - 1].op = "select"
            /\ ops[k - 1].addr = ops[k].addr

RegisterReadAt(a) == \E k \in DOMAIN ops :
  ops[k].fn = "read" /\ ops[k].op = "read" /\ ops[k].addr = a

ReadSelectAt(a) == \E k \in DOMAIN ops :
  ops[k].fn = "read" /\ ops[k].op = "select" /\ ops[k].addr = a

(* C10 as stated: a temperature read is issued to address a if and only if *)
(* the initialisation of a succeeded; failed addresses are neither         *)
(* selected nor read in the read pass; reads are in ascending order, once  *)
(* each, each directly after the select of its address.                    *)
C10_ReadIffInitialized ==
  /\ ReadPassShape
  /\ pc = "done" => \A a \in Addrs : RegisterReadAt(a) <=> InitSucceeded(a)

(* C10 as amended: read_adt74x0 is called for address a if and only if the *)
(* initialisation of a succeeded: a is then selected, and its temperature  *)
(* registers are read directly after that select unless the select fails   *)
(* (adt74x0.c; the line is then "error -1" and no register read is         *)
(* issued).  Failed addresses are neither selected nor read in the read    *)
(* pass; the calls are in ascending address order, once each.              *)
C10_ReadCalledIffInitialized ==
  /\ ReadPassShape
  /\ PastAcquisition =>
       \A a \in Addrs :
         /\ ReadSelectAt(a) <=> InitSucceeded(a)
         /\ RegisterReadAt(a) <=> (InitSucceeded(a) /\ (Kernel => OkAt(a, "rsel")))

\* a finished run of adt74x0.c: one address read, one whose initialisation
\* failed, one whose select failed in the read pass
C10_Witness ==
  /\ PastAcquisition
  /\ \E a \in Window : RegisterReadAt(a)
  /\ \E a \in Window : ~InitSucceeded(a) /\ ~ReadSelectAt(a)
  /\ \E a \in Window : InitSucceeded(a) /\ FailedAt(a, "rsel") /\ ~RegisterReadAt(a)

===========================================================================
